---- MODULE Spec2Model ----
(***************************************************************************)
(* Model of the attendance terminal's LCD driver (attendance-pi/src/LCD.cpp):*)
(* the 4-bit framing protocol over the I2C expander, the initialization    *)
(* sequence, the character encoder and the public display operations.      *)
(*                                                                         *)
(* A char is modelled as its bit pattern 0..255.  Every public function of *)
(* namespace LCD is one action (LCD_<name>); its body is an operator of    *)
(* the same name as in the source, acting on a context record that carries *)
(* the driver's globals, the transport's state and the log of what the     *)
(* call did (the frames handed to bcm2835_i2c_write, the calls of write    *)
(* and of writeChar).  The logs describe the last public call only.        *)
(*                                                                         *)
(* Further sections model the clock thread (Clock.cpp), the authentication *)
(* client and its request mutex (HttpSend.cpp), and two threads running    *)
(* the driver's operations line by line at the same time.                  *)
(***************************************************************************)
EXTENDS Integers, Sequences, FiniteSets, TLC

\* ---------------------------------------------------------------- bounds
\* Transport writes 1..MaxFailIdx of one public call may report failure.
MaxFailIdx == 3
\* Longest message buffer (characters before the final null) given to writeMessage.
MaxMsgLen == 2
\* Concurrent callers of authenticateUser.
NumCallers == 2
\* Chunks of response data held in responseData.
MaxData == 2

\* ------------------------------------------------------------- constants
I2C_SLAVE_ADDRESS == 39
BACKLIGHT_BIT == 8
ENABLE_BIT == 4
RDWR_BIT == 2
REGSELECT_BIT == 1
\* Width of a C char: every char value is kept modulo CharMod.
CharMod == 256
\* The default branch of encodeChar: '?'.
QuestionMark == 63
\* bcm2835_i2c_write's status for a write that did not succeed (0 is success).
I2cError == 1

\* ---------------------------------------------------------------- inputs
\* The threads that use the display at the same time.
Threads == {1, 2}
\* A thread outside every LCD operation.
IdleThread == [prog |-> <<>>, k |-> 0, at |-> "idle", byte |-> 0]
\* The threads that call HttpSend::authenticateUser.
Callers == 1 .. NumCallers
\* The bytes a response body is made of: 'Y', 'N'.
ResponseBytes == {89, 78}
Byte == 0 .. (CharMod - 1)
\* The transport writes of one public call that fail, by position: none, any
\* one of the first MaxFailIdx, or all of them.
FailSets == {{}} \cup {{k} : k \in 1 .. MaxFailIdx} \cup {1 .. MaxFailIdx}
\* Characters given to writeChar: 'H', backslash, and unsupported ones below,
\* above and far above the table.
Chars == {31, 72, 92, 126, 233}
\* Arguments given to write directly: nibbles, and bytes with high bits set.
WriteArgs == {0, 9, 15, 165}
\* The characters of a message: 'H' and the backslash.
MsgChars == {72, 92}
\* Message buffers: up to MaxMsgLen characters and the terminating null,
\* then either the end of the buffer or the bytes of an older string.
RECURSIVE SeqsUpTo(_, _)
SeqsUpTo(S, n) ==
  IF n = 0 THEN {<<>>}
  ELSE LET shorter == SeqsUpTo(S, n - 1)
       IN shorter \cup {Append(s, x) : s \in {t \in shorter : Len(t) = n - 1}, x \in S}
AfterTerminator == {<<>>, <<72, 0>>}
Messages ==
  {Append(s, 0) \o t : s \in SeqsUpTo(MsgChars, MaxMsgLen), t \in AfterTerminator}
Positions == {0, 16, 31}
\* The literal of LCD.cpp line 115, "TESTING TESTING", with its terminator.
TestMessage == <<84, 69, 83, 84, 73, 78, 71, 32, 84, 69, 83, 84, 73, 78, 71, 0>>

\* ----------------------------------------------------------------- state
VARIABLES
  backlight,   \* LCD::backlight
  regSelect,   \* LCD::regSelect: TRUE = character register
  readWrite,   \* LCD::readWrite
  i2cBegun,    \* the transport: bcm2835_i2c_begin succeeded and no end since
  slaveAddr,   \* the transport: the address set (0: none)
  initState,   \* "none" | "ok" | "failed": how the last call of init ended
  op,          \* the last public call and its inputs
  result,      \* how it ended: "ok" (returned) | "init_error" (threw)
  retval,      \* the value it returned (0 for a void function)
  beginCalls,  \* calls of bcm2835_i2c_begin it made
  wire,        \* the bytes it handed to bcm2835_i2c_write, in order
  rets,        \* the status each of them got
  nibs,        \* its calls of write: argument, globals at entry, span in wire
  lastBL,      \* the BL bit of the last byte ever handed to the transport (-1: none)
  chars,       \* its calls of writeChar: argument, code, span in nibs
  run,         \* Clock::run
  cThread,     \* Clock::cThread: "none" | "joinable" | "joined"
  clockPc,     \* the clock thread: "none" | "while" | "getDate" | "printf" |
               \* "sleep" | "returned"
  mainPc,      \* the thread using Clock: "idle" | "join" (blocked in destroy)
  date,        \* clockThread's date: the string getDate last returned
  tstruct,     \* getDate's tstruct: the broken-down time it last formatted
  sinceStop,   \* loop bodies begun since destroy stored run = false
  requestMutex,  \* HttpSend::requestMutex: the caller that holds it (0: free)
  responseData,  \* HttpSend::responseData: the chunks written to it, each with
                 \* whether a call earlier than the current one received it
  httpPc,        \* each caller of authenticateUser: "idle" | "lock" | "send" |
                 \* "pending" | "body" | "return"
  returned,      \* the last return of authenticateUser: the caller, the string
  useLock,     \* the callers of LCD wrap every public operation in one lock
  lcdLock,     \* that lock: the thread that holds it (0: free)
  thr,         \* each thread using LCD concurrently: the operation it is in
               \* (its bytes, with the register each is for), the byte and the
               \* line it has reached, the local `byte` of write
  bus,         \* the last byte those threads handed to the transport, by whom,
               \* and how many frames of one nibble of that thread it completes
               \* (0: the nibble was interrupted)
  damage       \* what has gone wrong on the bus among those threads

lcdVars == <<backlight, regSelect, readWrite, i2cBegun, slaveAddr, initState,
             op, result, retval, beginCalls, lastBL, wire, rets, nibs, chars>>
\* The driver's state other than regSelect.
lcdRest == <<backlight, readWrite, i2cBegun, slaveAddr, initState, op, result,
             retval, beginCalls, lastBL, wire, rets, nibs, chars>>
clockVars == <<run, cThread, clockPc, mainPc, date, tstruct, sinceStop>>

httpVars == <<requestMutex, responseData, httpPc, returned>>

threadVars == <<useLock, lcdLock, thr, bus, damage>>

vars == <<lcdVars, clockVars, httpVars, threadVars>>

\* ----------------------------------------------------------- bit helpers
RECURSIVE BitAnd(_, _)
BitAnd(a, b) ==
  IF a = 0 \/ b = 0 THEN 0
  ELSE (a % 2) * (b % 2) + 2 * BitAnd(a \div 2, b \div 2)

RECURSIVE BitOr(_, _)
BitOr(a, b) ==
  IF a = 0 THEN b
  ELSE IF b = 0 THEN a
  ELSE (IF a % 2 = 1 \/ b % 2 = 1 THEN 1 ELSE 0) + 2 * BitOr(a \div 2, b \div 2)

ShiftLeft4(b) == (b * 16) % CharMod
ShiftRight4(b) == b \div 16

\* ------------------------------------------------------- character encoder
\* The switch of encodeChar: <<case label, value returned>>, in source order.
\* The label of line 335 is a three-byte character literal (the UTF-8 bytes
\* EF BF BD), a multi-character constant of type int: 0xEFBFBD with GCC,
\* which no char equals.
encodeTable ==
   <<
      <<32, 32>>, <<33, 33>>, <<34, 34>>, <<35, 35>>, <<36, 36>>, <<37, 37>>,
      <<38, 38>>, <<39, 39>>, <<40, 40>>, <<41, 41>>, <<42, 42>>, <<43, 43>>,
      <<44, 44>>, <<45, 45>>, <<46, 46>>, <<47, 47>>, <<48, 48>>, <<49, 49>>,
      <<50, 50>>, <<51, 51>>, <<52, 52>>, <<53, 53>>, <<54, 54>>, <<55, 55>>,
      <<56, 56>>, <<57, 57>>, <<58, 58>>, <<59, 59>>, <<60, 60>>, <<61, 61>>,
      <<62, 62>>, <<63, 63>>, <<64, 64>>, <<65, 65>>, <<66, 66>>, <<67, 67>>,
      <<68, 68>>, <<69, 69>>, <<70, 70>>, <<71, 71>>, <<72, 72>>, <<73, 73>>,
      <<74, 74>>, <<75, 75>>, <<76, 76>>, <<77, 77>>, <<78, 78>>, <<79, 79>>,
      <<80, 80>>, <<81, 81>>, <<82, 82>>, <<83, 83>>, <<84, 84>>, <<85, 85>>,
      <<86, 86>>, <<87, 87>>, <<88, 88>>, <<89, 89>>, <<90, 90>>, <<91, 91>>,
      <<15712189, 92>>, <<93, 93>>, <<94, 94>>, <<95, 95>>, <<96, 96>>, <<97, 97>>,
      <<98, 98>>, <<99, 99>>, <<100, 100>>, <<101, 101>>, <<102, 102>>, <<103, 103>>,
      <<104, 104>>, <<105, 105>>, <<106, 106>>, <<107, 107>>, <<108, 108>>, <<109, 109>>,
      <<110, 110>>, <<111, 111>>, <<112, 112>>, <<113, 113>>, <<114, 114>>, <<115, 115>>,
      <<116, 116>>, <<117, 117>>, <<118, 118>>, <<119, 119>>, <<120, 120>>, <<121, 121>>,
      <<122, 122>>, <<123, 123>>, <<124, 124>>, <<125, 125>>
   >>

\* The switch on every char value: the first case whose label equals c, or
\* the default.
encodeSwitch ==
  [c \in Byte |->
     IF \E i \in 1 .. Len(encodeTable) : encodeTable[i][1] = c
     THEN encodeTable[CHOOSE i \in 1 .. Len(encodeTable) : encodeTable[i][1] = c][2]
     ELSE QuestionMark]

\* Mutant of encodeChar: the table goes one character further, to '~'.
encodeChar_tilde(c) == IF c = 126 THEN c ELSE encodeSwitch[c]

encodeChar(c) == encodeSwitch[c]

\* --------------------------------------------------------------- context
\* The running call: the globals, the transport and the logs.
Context(fail) ==
  [backlight |-> backlight, regSelect |-> regSelect, readWrite |-> readWrite,
   i2cBegun |-> i2cBegun, slaveAddr |-> slaveAddr, initState |-> initState,
   result |-> "ok", retval |-> 0, beginCalls |-> 0, fail |-> fail,
   wire |-> <<>>, rets |-> <<>>, nibs |-> <<>>, chars |-> <<>>,
   lastBL |-> lastBL]

\* bcm2835_i2c_write of one byte: the status of the k-th write of the call.
i2c_write(k, fail) == IF k \in fail THEN I2cError ELSE 0

\* writeRaw returns the transport's status.
writeRaw(ctx, byte) ==
  LET k == Len(ctx.wire) + 1
      status == i2c_write(k, ctx.fail)
  IN [ctx |-> [ctx EXCEPT !.wire = Append(@, byte % CharMod),
                          !.rets = Append(@, status),
                          !.lastBL = ((byte % CharMod) \div BACKLIGHT_BIT) % 2],
      ret |-> status]

\* write(byte): shift, add the control bits, pulse enable low-high-low.
\* The value writeRaw returns is not used.
\* The record of one call of write: its argument, the globals at entry and
\* the transport writes made between entry and exit.
writeLogged(entry, byte, exit) ==
  [exit EXCEPT !.nibs = Append(@, [arg |-> byte, bl |-> entry.backlight,
                                   rs |-> entry.regSelect,
                                   from |-> Len(entry.wire) + 1,
                                   to |-> Len(exit.wire)])]

\* Mutant of pulse: the pulse is given up when its first write fails.
pulse_abortOnError(ctx, frame) ==
  IF writeRaw(ctx, frame).ret # 0
  THEN writeRaw(ctx, frame).ctx
  ELSE writeRaw(writeRaw(writeRaw(ctx, frame).ctx,
                         BitOr(frame, ENABLE_BIT)).ctx, frame).ctx

\* Lines 157-167: the frame with enable low, high, low.
pulse(ctx, frame) ==
  LET c1 == writeRaw(ctx, frame).ctx
      c2 == writeRaw(c1, BitOr(frame, ENABLE_BIT)).ctx
  IN writeRaw(c2, frame).ctx

\* Mutant of write: the register-select bit is set for the command register
\* (as the file's header comment has it) instead of the character register.
write_rsInverted(ctx, byte) ==
  LET b1 == ShiftLeft4(byte)
      b2 == IF ctx.backlight THEN (b1 + BACKLIGHT_BIT) % CharMod ELSE b1
      b3 == IF ~ctx.regSelect THEN (b2 + REGSELECT_BIT) % CharMod ELSE b2
  IN writeLogged(ctx, byte, pulse(ctx, b3))

write(ctx, byte) ==
  LET b1 == ShiftLeft4(byte)
      b2 == IF ctx.backlight THEN (b1 + BACKLIGHT_BIT) % CharMod ELSE b1
      b3 == IF ctx.regSelect THEN (b2 + REGSELECT_BIT) % CharMod ELSE b2
  IN writeLogged(ctx, byte, pulse(ctx, b3))

\* The record of one call of writeChar: its argument and the calls of write
\* made between entry and exit.
writeCharLogged(entry, c, exit) ==
  [exit EXCEPT !.chars = Append(@, [c |-> c, from |-> Len(entry.nibs) + 1,
                                    to |-> Len(exit.nibs)])]

\* Line 182: m1 = (ccode & 0b11110000) >> 4.
highNibble(ccode) == ShiftRight4(BitAnd(ccode, 240))
\* Line 183: m2 = (ccode & 0b00001111).
lowNibble(ccode) == BitAnd(ccode, 15)

\* Mutant of writeCode: the register select is left as it was.
writeCode_noRegSelect(ctx, ccode) ==
  write(write(ctx, highNibble(ccode)), lowNibble(ccode))

\* Mutant of writeCode: the low nibble is sent first.
writeCode_lowFirst(ctx, ccode) ==
  write(write([ctx EXCEPT !.regSelect = TRUE], lowNibble(ccode)),
        highNibble(ccode))

\* Lines 181-188 for the code encodeChar returned.
writeCode(ctx, ccode) ==
  LET c0 == [ctx EXCEPT !.regSelect = TRUE]
      c1 == write(c0, highNibble(ccode))
  IN write(c1, lowNibble(ccode))

writeChar(ctx, c) == writeCharLogged(ctx, c, writeCode(ctx, encodeChar(c)))

\* The loop of writeMessage from index i (1-based here, 0-based in C).  (The
\* test on ctx.wire is always true: it has the context computed before the
\* next iteration starts.)
RECURSIVE writeMessageFrom(_, _, _)
writeMessageFrom(ctx, message, i) ==
  IF Len(ctx.wire) >= 0 /\ message[i] = 0 THEN ctx
  ELSE writeMessageFrom(writeChar(ctx, message[i]), message, i + 1)

\* Mutant of writeMessage: the end of the message is tested after the
\* character is written, so the terminator is written too.
RECURSIVE writeMessage_testAfter(_, _, _)
writeMessage_testAfter(ctx, message, i) ==
  IF Len(ctx.wire) >= 0 /\ message[i] = 0 THEN writeChar(ctx, message[i])
  ELSE writeMessage_testAfter(writeChar(ctx, message[i]), message, i + 1)

writeMessage_terminatorWritten(ctx, message) ==
  writeMessage_testAfter(ctx, message, 1)

writeMessage(ctx, message) == writeMessageFrom(ctx, message, 1)

\* Mutant of clear: it does what its comment says, nothing.
clear_nothing(ctx) == ctx

clear(ctx) ==
  LET c0 == [ctx EXCEPT !.regSelect = FALSE]
  IN write(write(c0, 0), 1)

\* Mutant of home: the register select is left as it was.
home_noRegSelect(ctx) == write(write(ctx, 0), 2)

home(ctx) ==
  LET c0 == [ctx EXCEPT !.regSelect = FALSE]
  IN write(write(c0, 0), 2)

goTo(ctx, pos) == ctx

\* Mutant of initNibbles: the display is turned on before the entry mode is set.
initNibbles_displayOnEarly == <<2, 8, 0, 8, 0, 1, 0, 12, 0, 6>>

\* The ten configuration nibbles of init, lines 96-109, in order.
initNibbles == <<2, 8, 0, 8, 0, 1, 0, 6, 0, 12>>

RECURSIVE writeAll(_, _, _)
writeAll(ctx, nibbles, i) ==
  IF Len(ctx.wire) >= 0 /\ i > Len(nibbles) THEN ctx
  ELSE writeAll(write(ctx, nibbles[i]), nibbles, i + 1)

\* Line 115 calls writeMessage("TESTING TESTING", 0); the writeMessage that
\* LCD.cpp defines takes the message alone and is the one init runs here.

\* bcm2835_i2c_begin, which succeeds or not as the hardware decides.
i2c_begin(ctx, beginOk) ==
  [ctx EXCEPT !.beginCalls = @ + 1,
              !.i2cBegun = IF beginOk THEN TRUE ELSE @]

\* Mutant of init: the address and the register select are set before the
\* result of bcm2835_i2c_begin is looked at.
init_addressFirst(ctx, beginOk) ==
  LET c1 == [i2c_begin(ctx, beginOk) EXCEPT
               !.slaveAddr = I2C_SLAVE_ADDRESS, !.regSelect = FALSE]
  IN IF ~beginOk
     THEN [c1 EXCEPT !.result = "init_error", !.initState = "failed"]
     ELSE [writeMessage([writeAll(c1, initNibbles, 1) EXCEPT !.backlight = TRUE],
                        TestMessage) EXCEPT !.initState = "ok"]

\* Mutant of init: the backlight flag is set after the test message.
init_backlightLast(ctx, beginOk) ==
  IF ~beginOk
  THEN [i2c_begin(ctx, beginOk) EXCEPT !.result = "init_error",
                                       !.initState = "failed"]
  ELSE LET c1 == [i2c_begin(ctx, beginOk) EXCEPT
                    !.slaveAddr = I2C_SLAVE_ADDRESS, !.regSelect = FALSE]
           c2 == writeAll(c1, initNibbles, 1)
           c4 == writeMessage(c2, TestMessage)
       IN [c4 EXCEPT !.backlight = TRUE, !.initState = "ok"]

\* Mutant of init: the backlight flag is set before the configuration.
init_backlightFirst(ctx, beginOk) ==
  IF ~beginOk
  THEN [i2c_begin(ctx, beginOk) EXCEPT !.result = "init_error",
                                       !.initState = "failed"]
  ELSE LET c1 == [i2c_begin(ctx, beginOk) EXCEPT
                    !.slaveAddr = I2C_SLAVE_ADDRESS, !.regSelect = FALSE,
                    !.backlight = TRUE]
           c2 == writeAll(c1, initNibbles, 1)
           c4 == writeMessage(c2, TestMessage)
       IN [c4 EXCEPT !.initState = "ok"]

init(ctx, beginOk) ==
  IF ~beginOk
  THEN [i2c_begin(ctx, beginOk) EXCEPT !.result = "init_error",
                                       !.initState = "failed"]
  ELSE LET c1 == [i2c_begin(ctx, beginOk) EXCEPT
                    !.slaveAddr = I2C_SLAVE_ADDRESS, !.regSelect = FALSE]
           c2 == writeAll(c1, initNibbles, 1)
           c3 == [c2 EXCEPT !.backlight = TRUE]
           c4 == writeMessage(c3, TestMessage)
       IN [c4 EXCEPT !.initState = "ok"]

destroy(ctx) == [ctx EXCEPT !.i2cBegun = FALSE]

\* --------------------------------------------------------------- actions
Call(name, byte, message, pos, beginOk, fail) ==
  [name |-> name, byte |-> byte, message |-> message, pos |-> pos,
   beginOk |-> beginOk, fail |-> fail]

\* The call returns (or throws): the context becomes the state.
Commit(ctx, call) ==
  /\ backlight' = ctx.backlight
  /\ regSelect' = ctx.regSelect
  /\ readWrite' = ctx.readWrite
  /\ i2cBegun' = ctx.i2cBegun
  /\ slaveAddr' = ctx.slaveAddr
  /\ initState' = ctx.initState
  /\ result' = ctx.result
  /\ retval' = ctx.retval
  /\ beginCalls' = ctx.beginCalls
  /\ wire' = ctx.wire
  /\ rets' = ctx.rets
  /\ nibs' = ctx.nibs
  /\ chars' = ctx.chars
  /\ lastBL' = ctx.lastBL
  /\ op' = call
  /\ UNCHANGED <<clockVars, httpVars, threadVars>>

LCD_init(begins, fails) ==
  \E beginOk \in begins, fail \in fails :
    \E ctx \in {init(Context(fail), beginOk)} :
      Commit(ctx, Call("init", 0, <<>>, 0, beginOk, fail))

LCD_destroy ==
  \E ctx \in {destroy(Context({}))} :
      Commit(ctx, Call("destroy", 0, <<>>, 0, TRUE, {}))

LCD_write(bytes, fails) ==
  \E byte \in bytes, fail \in fails :
    \E ctx \in {write(Context(fail), byte)} :
      Commit(ctx, Call("write", byte, <<>>, 0, TRUE, fail))

LCD_writeChar(cs, fails) ==
  \E c \in cs, fail \in fails :
    \E ctx \in {writeChar(Context(fail), c)} :
      Commit(ctx, Call("writeChar", c, <<>>, 0, TRUE, fail))

LCD_encodeChar(cs) ==
  \E c \in cs :
    \E ctx \in {[Context({}) EXCEPT !.retval = encodeChar(c)]} :
      Commit(ctx, Call("encodeChar", c, <<>>, 0, TRUE, {}))

LCD_writeMessage ==
  \E message \in Messages, fail \in FailSets :
    \E ctx \in {writeMessage(Context(fail), message)} :
      Commit(ctx, Call("writeMessage", 0, message, 0, TRUE, fail))

LCD_clear(fails) ==
  \E fail \in fails :
    \E ctx \in {clear(Context(fail))} :
      Commit(ctx, Call("clear", 0, <<>>, 0, TRUE, fail))

LCD_home(fails) ==
  \E fail \in fails :
    \E ctx \in {home(Context(fail))} :
      Commit(ctx, Call("home", 0, <<>>, 0, TRUE, fail))

LCD_goTo ==
  \E pos \in Positions :
    \E ctx \in {goTo(Context({}), pos)} :
      Commit(ctx, Call("goTo", 0, <<>>, pos, TRUE, {}))

\* Clock.cpp's globals as constructed, no thread started, nothing formatted.
ClockInit ==
  /\ run = TRUE
  /\ cThread = "none"
  /\ clockPc = "none"
  /\ mainPc = "idle"
  /\ date = <<>>
  /\ tstruct = [tm_mon |-> 0, tm_mday |-> 0, tm_hour |-> 0, tm_min |-> 0]
  /\ sinceStop = 0

\* HttpSend.cpp's globals as constructed, no caller inside authenticateUser.
HttpInit ==
  /\ requestMutex = 0
  /\ responseData = <<>>
  /\ httpPc = [t \in Callers |-> "idle"]
  /\ returned = [by |-> 0, str |-> <<>>]

\* No thread is inside an LCD operation, nothing has gone over the bus.
ThreadsInit ==
  /\ lcdLock = 0
  /\ thr = [t \in Threads |-> IdleThread]
  /\ bus = [by |-> 0, frame |-> 0, n |-> 0]
  /\ damage = {}

\* LCD.cpp's globals as constructed, the transport closed, no call made.
LCDInit ==
  /\ backlight = FALSE
  /\ regSelect = FALSE
  /\ readWrite = FALSE
  /\ i2cBegun = FALSE
  /\ slaveAddr = 0
  /\ initState = "none"
  /\ op = Call("none", 0, <<>>, 0, TRUE, {})
  /\ result = "ok"
  /\ retval = 0
  /\ beginCalls = 0
  /\ wire = <<>>
  /\ rets = <<>>
  /\ nibs = <<>>
  /\ chars = <<>>
  /\ lastBL = -1

Init ==
  /\ LCDInit
  /\ ClockInit
  /\ HttpInit
  /\ ThreadsInit
  /\ useLock = FALSE

\* The driver used through its public operations.
Next ==
  \/ LCD_init(BOOLEAN, FailSets)
  \/ LCD_destroy
  \/ LCD_write(WriteArgs, FailSets)
  \/ LCD_writeChar(Chars, FailSets)
  \/ LCD_writeMessage
  \/ LCD_clear(FailSets)
  \/ LCD_home(FailSets)
  \/ LCD_goTo

Spec == Init /\ [][Next]_vars

\* The framing of every char value in every state of the globals: before and
\* after a successful init, after a character and after a command.
NextWrite ==
  \/ LCD_init({TRUE}, {{}})
  \/ LCD_write(Byte, {{}})
  \/ LCD_writeChar({72}, {{}})
  \/ LCD_clear({{}})

SpecWrite == Init /\ [][NextWrite]_vars

\* writeChar on every char value, before and after a successful init.
NextWriteChar ==
  \/ LCD_init({TRUE}, {{}})
  \/ LCD_writeChar(Byte, {{}})

SpecWriteChar == Init /\ [][NextWriteChar]_vars

\* The encoder on every char value.
NextEncode == LCD_encodeChar(Byte)

SpecEncode == Init /\ [][NextEncode]_vars

\* ================================================================ claims
\* The value (0 or 1) of the bit `mask` (a power of two) in frame f.
Bit(f, mask) == (f \div mask) % 2
\* The arguments of the calls of write, in order.
NibbleArgs == [i \in 1 .. Len(nibs) |-> nibs[i].arg]
\* The length of the C string in a buffer: the characters before its first null.
strlen(message) ==
  (CHOOSE i \in 1 .. Len(message) :
     message[i] = 0 /\ \A j \in 1 .. (i - 1) : message[j] # 0) - 1
\* Some transport write of the last call reported failure.
SomeWriteFailed == \E k \in 1 .. Len(rets) : rets[k] # 0

\* C1: every call of write makes exactly three transport writes, enable low,
\* high, low: the first and third frames are equal, the second is the first
\* with the EN bit set, the backlight and register-select bits are the same
\* in all three, and the transport sees nothing else; each frame is attempted
\* once whether or not a transport write fails.
C1_ThreeFramesPerNibble ==
  /\ Len(wire) = 3 * Len(nibs)
  /\ Len(rets) = Len(wire)
  /\ \A i \in 1 .. Len(nibs) :
       LET n == nibs[i]
       IN /\ n.from = 3 * (i - 1) + 1
          /\ n.to = n.from + 2
          /\ wire[n.from] = wire[n.to]
          /\ Bit(wire[n.from], ENABLE_BIT) = 0
          /\ Bit(wire[n.from + 1], ENABLE_BIT) = 1
          /\ wire[n.from + 1] = wire[n.from] + ENABLE_BIT
          /\ \A k \in n.from .. n.to :
               /\ Bit(wire[k], BACKLIGHT_BIT) = Bit(wire[n.from], BACKLIGHT_BIT)
               /\ Bit(wire[k], REGSELECT_BIT) = Bit(wire[n.from], REGSELECT_BIT)

\* C1 witness: a direct call of write, backlight on and character register
\* selected, whose first transport write fails.
C1_Witness ==
  /\ op.name = "write"
  /\ backlight /\ regSelect
  /\ Len(nibs) = 1
  /\ Len(wire) = 3
  /\ rets[1] # 0

C3_FailureSurfaced == SomeWriteFailed => result = "io_error"

\* C4: after a successful begin, init writes the nibbles 2, 8, 0, 8, 0, 1, 0, 6,
\* 0, 12 first and in this order, every one framed with register-select 0, and
\* no character is written before the tenth of them (display on).
C4_InitOrder ==
  (op.name = "init" /\ op.beginOk) =>
    /\ Len(nibs) >= 10
    /\ [i \in 1 .. 10 |-> nibs[i].arg] = <<2, 8, 0, 8, 0, 1, 0, 6, 0, 12>>
    /\ \A i \in 1 .. 10 :
         /\ ~nibs[i].rs
         /\ \A k \in nibs[i].from .. nibs[i].to : Bit(wire[k], REGSELECT_BIT) = 0
    /\ \A j \in 1 .. Len(chars) : chars[j].from > 10
    /\ \A i \in 11 .. Len(nibs) :
         \E j \in 1 .. Len(chars) : i \in chars[j].from .. chars[j].to

\* C4 witness: a successful init, all its writes reported as done.
C4_Witness ==
  /\ op.name = "init" /\ op.beginOk
  /\ result = "ok"
  /\ Len(nibs) > 10
  /\ ~SomeWriteFailed

\* C5: an init whose begin fails throws, makes no transport write, sets no
\* slave address, leaves backlight, regSelect and readWrite as they were, and
\* has called begin once.
C5_BeginFailure ==
  [][(op'.name = "init" /\ ~op'.beginOk) =>
       /\ result' = "init_error"
       /\ wire' = <<>>
       /\ nibs' = <<>>
       /\ slaveAddr' = slaveAddr
       /\ backlight' = backlight
       /\ regSelect' = regSelect
       /\ readWrite' = readWrite
       /\ beginCalls' = 1]_vars

\* C5 witness: init has thrown with the character register selected and no
\* slave address ever set.
C5_Witness ==
  /\ op.name = "init" /\ ~op.beginOk
  /\ result = "init_error"
  /\ regSelect
  /\ slaveAddr = 0

\* C6 (as claimed): once init has failed, writeMessage, clear, home and goTo
\* hand nothing to the transport.
C6_NoUseAfterFailedInit ==
  (initState = "failed" /\ op.name \in {"writeMessage", "clear", "home", "goTo"}) =>
    wire = <<>>

\* C7: writeMessage makes 2n calls of write for the n characters before the
\* first null: for each character in order the high then the low nibble of
\* its code, all with the character register selected.
C7_MessageNibbles ==
  op.name = "writeMessage" =>
    LET n == strlen(op.message)
    IN /\ Len(nibs) = 2 * n
       /\ Len(chars) = n
       /\ \A i \in 1 .. n :
            /\ chars[i].c = op.message[i]
            /\ nibs[2 * i - 1].arg = encodeChar(op.message[i]) \div 16
            /\ nibs[2 * i].arg = encodeChar(op.message[i]) % 16
       /\ \A i \in 1 .. Len(nibs) :
            /\ nibs[i].rs
            /\ \A k \in nibs[i].from .. nibs[i].to :
                 Bit(wire[k], REGSELECT_BIT) = 1

\* C7 witness: for a buffer holding "H", its null and an older "H", the two
\* nibbles 4 and 8 are written and no more.
C7_Witness ==
  /\ op.name = "writeMessage"
  /\ op.message = <<72, 0, 72, 0>>
  /\ NibbleArgs = <<4, 8>>

\* C8 (as claimed): after writeMessage the character register is selected.
C8_AlwaysCharacter == op.name = "writeMessage" => regSelect

\* C8 (amended): writeMessage of a message with at least one character selects
\* the character register; writeMessage of the empty message leaves the
\* register select as it was.
C8_CharacterUnlessEmpty ==
  [][op'.name = "writeMessage" =>
       regSelect' = (IF strlen(op'.message) > 0 THEN TRUE ELSE regSelect)]_vars

\* C8 witness: writeMessage of a one-character message has returned with the
\* character register selected, the backlight still off.
C8_Witness ==
  /\ op.name = "writeMessage"
  /\ strlen(op.message) = 1
  /\ regSelect
  /\ ~backlight

\* C9: writeChar makes exactly two calls of write, the high nibble of the
\* code then the low one, and the two recombine to the code; the split
\* recombines for every 8-bit code.
C9_HighThenLow ==
  /\ \A j \in 1 .. Len(chars) :
       LET hi == nibs[chars[j].from].arg
           lo == nibs[chars[j].to].arg
       IN /\ chars[j].to = chars[j].from + 1
          /\ hi = encodeChar(chars[j].c) \div 16
          /\ lo = encodeChar(chars[j].c) % 16
          /\ hi * 16 + lo = encodeChar(chars[j].c)
  /\ op.name = "writeChar" => (Len(chars) = 1 /\ Len(nibs) = 2 /\ chars[1].c = op.byte)
  /\ \A code \in Byte : highNibble(code) * 16 + lowNibble(code) = code

\* C9 witness: writeChar('H') has written the nibbles 4 then 8.
C9_Witness ==
  /\ op.name = "writeChar"
  /\ op.byte = 72
  /\ NibbleArgs = <<4, 8>>

\* C10 (as claimed): encodeChar returns the character for space through '}'
\* and '?' for every other character.
C10_AsciiOrQuestionMark ==
  op.name = "encodeChar" =>
    retval = (IF op.byte \in 32 .. 125 THEN op.byte ELSE 63)

\* C10 (amended): encodeChar returns the character for space through '}'
\* except the backslash, and '?' for the backslash and every other character.
C10_AsciiExceptBackslash ==
  op.name = "encodeChar" =>
    /\ retval = (IF op.byte \in 32 .. 125 /\ op.byte # 92 THEN op.byte ELSE 63)
    /\ result = "ok"
    /\ wire = <<>>

\* C10 witness: encodeChar of the backslash has returned '?'.
C10_Witness ==
  /\ op.name = "encodeChar"
  /\ op.byte = 92
  /\ retval = 63

C12_GoToSetsAddress ==
  op.name = "goTo" =>
    /\ Len(nibs) = 2
    /\ wire # <<>>
    /\ ~nibs[1].rs /\ ~nibs[2].rs
    /\ nibs[1].arg >= 8

\* Whether the i-th call of write belongs to a call of writeChar.
IsGlyphNibble(i) ==
  \E j \in 1 .. Len(chars) : i \in chars[j].from .. chars[j].to

\* C16: in init, writeMessage, clear, home and goTo every nibble of a command
\* is framed with register-select 0 and every nibble of a character with
\* register-select 1, the two nibbles of a byte alike; home writes 0 then 2
\* with register-select 0.
C16_RegisterSelectPerByte ==
  op.name \in {"init", "writeMessage", "clear", "home", "goTo"} =>
    /\ \A i \in 1 .. Len(nibs) :
         /\ nibs[i].rs = IsGlyphNibble(i)
         /\ \A k \in nibs[i].from .. nibs[i].to :
              Bit(wire[k], REGSELECT_BIT) = (IF IsGlyphNibble(i) THEN 1 ELSE 0)
    /\ Len(nibs) % 2 = 0
    /\ \A b \in 1 .. (Len(nibs) \div 2) :
         Bit(wire[nibs[2 * b - 1].from], REGSELECT_BIT)
           = Bit(wire[nibs[2 * b].from], REGSELECT_BIT)
    /\ op.name \in {"clear", "home"} => chars = <<>>
    /\ op.name = "writeMessage" => \A i \in 1 .. Len(nibs) : IsGlyphNibble(i)
    /\ op.name = "init" => \A i \in 1 .. Len(nibs) : IsGlyphNibble(i) = (i > 10)
    /\ op.name = "home" => (NibbleArgs = <<0, 2>> /\ ~regSelect)

\* C16 witness: home after a successful init: nibbles 0 and 2, backlight bit
\* set, register-select 0.
C16_Witness ==
  /\ op.name = "home"
  /\ backlight
  /\ wire = <<8, 12, 8, 40, 44, 40>>

TestText == <<84, 69, 83, 84, 73, 78, 71, 32, 84, 69, 83, 84, 73, 78, 71>>

\* C18: a successful init ends with the backlight on and the character
\* register selected; its ten configuration nibbles are framed with the BL
\* bit as the flag was before the call, and its last 30 calls of write are
\* the nibbles of "TESTING TESTING", high then low, framed with BL = 1 and
\* register-select 1.
C18_InitReady ==
  [][(op'.name = "init" /\ op'.beginOk) =>
       /\ backlight' /\ regSelect' /\ initState' = "ok" /\ result' = "ok"
       /\ Len(nibs') = 10 + 2 * Len(TestText)
       /\ \A i \in 1 .. 10 :
            /\ nibs'[i].bl = backlight
            /\ \A k \in nibs'[i].from .. nibs'[i].to :
                 Bit(wire'[k], BACKLIGHT_BIT) = (IF backlight THEN 1 ELSE 0)
       /\ \A j \in 1 .. Len(TestText) :
            /\ nibs'[10 + 2 * j - 1].arg = TestText[j] \div 16
            /\ nibs'[10 + 2 * j].arg = TestText[j] % 16
       /\ \A i \in 11 .. Len(nibs') :
            /\ nibs'[i].bl /\ nibs'[i].rs
            /\ \A k \in nibs'[i].from .. nibs'[i].to :
                 /\ Bit(wire'[k], BACKLIGHT_BIT) = 1
                 /\ Bit(wire'[k], REGSELECT_BIT) = 1]_vars

\* C18 witness: the first successful init: the first configuration nibble
\* was framed with the backlight off, and the backlight is on at the end.
C18_Witness ==
  /\ op.name = "init" /\ op.beginOk
  /\ Len(nibs) = 40
  /\ ~nibs[1].bl
  /\ Bit(wire[1], BACKLIGHT_BIT) = 0
  /\ backlight /\ regSelect


\* ================================================================= Clock
\* Clock.cpp: a thread that formats the time of day once per second until
\* destroy clears `run` and joins it.
\*
\* `run` is a plain bool that destroy writes while the clock thread reads it.
\* The loop body calls printf and sleep, which the compiler cannot see through,
\* so every test of the loop condition loads `run` from memory, and a bool is
\* stored in one byte: a test yields the value before or after the store,
\* which is what the interleaving of clockThread_while and Clock_destroy_stop
\* produces.

\* char buf[16] of getDate.
BufSize == 16

\* The format of getDate, "%m/%d      %I:%M", directive by directive.
DateFormat ==
  <<"%m", "/", "%d", " ", " ", " ", " ", " ", " ", "%I", ":", "%M">>

\* Broken-down local times: the first minute of the year, an afternoon with
\* one-digit fields, the last minute of the year.
Times ==
  { [tm_mon |-> 0, tm_mday |-> 1, tm_hour |-> 0, tm_min |-> 0],
    [tm_mon |-> 6, tm_mday |-> 4, tm_hour |-> 13, tm_min |-> 5],
    [tm_mon |-> 11, tm_mday |-> 31, tm_hour |-> 23, tm_min |-> 59] }

\* What memory that was never written can hold up to its first null byte:
\* nothing, one byte, several bytes.
Garbage == {<<>>, <<63>>, <<63, 63, 63>>}

\* A number below 100 as two decimal digits.
TwoDigits(n) == <<48 + (n \div 10), 48 + (n % 10)>>

\* The hour of the 12-hour clock, 12 for midnight and noon.
Hour12(h) == IF h % 12 = 0 THEN 12 ELSE h % 12

\* The characters one directive of the format produces.
Conversion(item, tm) ==
  CASE item = "%m" -> TwoDigits(tm.tm_mon + 1)
    [] item = "%d" -> TwoDigits(tm.tm_mday)
    [] item = "%I" -> TwoDigits(Hour12(tm.tm_hour))
    [] item = "%M" -> TwoDigits(tm.tm_min)
    [] item = "/" -> <<47>>
    [] item = ":" -> <<58>>
    [] item = " " -> <<32>>

\* The output of the first n directives.
RECURSIVE Formatted(_, _, _)
Formatted(format, tm, n) ==
  IF n = 0 THEN <<>>
  ELSE Formatted(format, tm, n - 1) \o Conversion(format[n], tm)

\* The number of leading directives whose output, each taken whole, leaves
\* room in maxsize bytes.
RECURSIVE Fitting(_, _, _, _)
Fitting(format, tm, maxsize, n) ==
  IF n = Len(format) THEN n
  ELSE IF Len(Formatted(format, tm, n + 1)) < maxsize
       THEN Fitting(format, tm, maxsize, n + 1)
       ELSE n

\* std::strftime(buf, maxsize, format, &tm): the value it returns and the C
\* strings that can then be read at buf. When the output and its terminator
\* fit, it returns the length and buf holds the output. Otherwise it returns 0
\* and the contents of buf are indeterminate: nothing written or the
\* directives that fit written without a terminator (what follows is whatever
\* the memory held), or the output cut to maxsize - 1 characters.
strftime(maxsize, format, tm) ==
  LET out == Formatted(format, tm, Len(format))
      fit == Len(Formatted(format, tm, Fitting(format, tm, maxsize, 0)))
  IN IF Len(out) + 1 <= maxsize
     THEN [ret |-> Len(out), strings |-> {out}]
     ELSE [ret |-> 0,
           strings |-> {SubSeq(out, 1, k) \o g : k \in {0, fit}, g \in Garbage}
                         \cup {SubSeq(out, 1, maxsize - 1)}]

\* Clock::getDate for each local time of Times: the strings it can return. The
\* value strftime returns is discarded and buf is converted to a std::string.
getDateStrings == [tm \in Times |-> strftime(BufSize, DateFormat, tm).strings]

getDate(tm) == getDateStrings[tm]

\* Clock::init, called with no thread running: the thread starts.
Clock_init ==
  /\ mainPc = "idle"
  /\ cThread # "joinable"
  /\ cThread' = "joinable"
  /\ clockPc' = "while"
  /\ sinceStop' = 0
  /\ UNCHANGED <<run, mainPc, date, tstruct, lcdVars, httpVars, threadVars>>

\* Clock::destroy that goes on to join without the store to run.
Clock_destroy_stop_runKept ==
  /\ mainPc = "idle"
  /\ cThread = "joinable"
  /\ mainPc' = "join"
  /\ UNCHANGED <<run, cThread, clockPc, date, tstruct, sinceStop, lcdVars, httpVars, threadVars>>

\* Clock::destroy up to its call of join: run = false.
Clock_destroy_stop ==
  /\ mainPc = "idle"
  /\ cThread = "joinable"
  /\ run' = FALSE
  /\ mainPc' = "join"
  /\ UNCHANGED <<cThread, clockPc, date, tstruct, sinceStop, lcdVars, httpVars, threadVars>>

\* Clock::destroy from the join on: join returns once the thread function has
\* returned, and destroy returns.
Clock_destroy_join ==
  /\ mainPc = "join"
  /\ clockPc = "returned"
  /\ cThread' = "joined"
  /\ mainPc' = "idle"
  /\ UNCHANGED <<run, clockPc, date, tstruct, sinceStop, lcdVars, httpVars, threadVars>>

\* clockThread: the test of while(run).
clockThread_while ==
  /\ clockPc = "while"
  /\ clockPc' = IF run THEN "getDate" ELSE "returned"
  /\ UNCHANGED <<run, cThread, mainPc, date, tstruct, sinceStop, lcdVars, httpVars, threadVars>>

\* clockThread: date = getDate().
clockThread_getDate ==
  /\ clockPc = "getDate"
  /\ \E tm \in Times :
       \E str \in getDate(tm) :
         /\ tstruct' = tm
         /\ date' = str
  /\ sinceStop' = IF run THEN sinceStop ELSE sinceStop + 1
  /\ clockPc' = "printf"
  /\ UNCHANGED <<run, cThread, mainPc, lcdVars, httpVars, threadVars>>

\* clockThread: the printf of the date.
clockThread_printf ==
  /\ clockPc = "printf"
  /\ clockPc' = "sleep"
  /\ UNCHANGED <<run, cThread, mainPc, date, tstruct, sinceStop, lcdVars, httpVars, threadVars>>

\* clockThread: sleep(1) returns.
clockThread_sleep ==
  /\ clockPc = "sleep"
  /\ clockPc' = "while"
  /\ UNCHANGED <<run, cThread, mainPc, date, tstruct, sinceStop, lcdVars, httpVars, threadVars>>

\* A step of the clock thread.
clockThread ==
  \/ clockThread_while
  \/ clockThread_getDate
  \/ clockThread_printf
  \/ clockThread_sleep

NextClock ==
  \/ Clock_init
  \/ Clock_destroy_stop
  \/ Clock_destroy_join
  \/ clockThread

\* The scheduler runs the clock thread when it can take a step (sleep(1)
\* returns), and a join whose thread has finished returns.
SpecClock ==
  /\ Init
  /\ [][NextClock]_vars
  /\ WF_vars(clockThread)
  /\ WF_vars(Clock_destroy_join)

\* ---------------------------------------------------------- Clock claims
\* The 16 characters MM/DD, six spaces, HH:MM for the local time tm.
FixedWidth(tm) ==
  TwoDigits(tm.tm_mon + 1) \o <<47>> \o TwoDigits(tm.tm_mday)
    \o <<32, 32, 32, 32, 32, 32>>
    \o TwoDigits(Hour12(tm.tm_hour)) \o <<58>> \o TwoDigits(tm.tm_min)

\* C15: the string getDate returns is the fixed-width 16-character form of
\* the time it formatted (MM/DD, six spaces, HH:MM), never empty, truncated
\* or indeterminate.
C15_FixedWidthDate == clockPc = "printf" => date = FixedWidth(tstruct)

\* C20: after init has started the clock thread, a call of destroy eventually
\* returns with the thread joined; the thread begins at most one loop body
\* after run is set to false; the thread function never returns while run is
\* true.
C20_DestroyReturns ==
  /\ [](clockPc = "returned" => ~run)
  /\ [](sinceStop <= 1)
  /\ (mainPc = "join") ~> (mainPc = "idle" /\ cThread = "joined")

\* C20 witness: destroy has returned, the thread joined after one further
\* loop body that began after the store to run.
C20_Witness ==
  /\ mainPc = "idle"
  /\ cThread = "joined"
  /\ clockPc = "returned"
  /\ ~run
  /\ sinceStop = 1


\* ============================================================== HttpSend
\* HttpSend.cpp: authenticateUser posts a user id and returns what the
\* callbacks collected in the global responseData. The HTTP library
\* (rpi-http-request) is used through HttpRequest: sendRequest, then
\* processRequest while responsesPending(); it reports a response through
\* the three callbacks. A request is followed by its headers, any number of
\* data chunks and completion; or it ends with no response at all (no
\* callback is made and nothing is pending any more); or the library throws
\* HttpException, which authenticateUser does not catch.

\* responseData with every chunk marked as received by an earlier call.
Aged(data) == [i \in 1 .. Len(data) |-> [data[i] EXCEPT !.earlier = TRUE]]

\* A thread calls authenticateUser and reaches the lock_guard.
authenticateUser_call(t) ==
  /\ httpPc[t] = "idle"
  /\ httpPc' = [httpPc EXCEPT ![t] = "lock"]
  /\ UNCHANGED <<requestMutex, responseData, returned, lcdVars, clockVars, threadVars>>

\* authenticateUser without the lock_guard: the caller goes on at once.
authenticateUser_lock_absent(t) ==
  /\ httpPc[t] = "lock"
  /\ httpPc' = [httpPc EXCEPT ![t] = "send"]
  /\ responseData' = Aged(responseData)
  /\ UNCHANGED <<requestMutex, returned, lcdVars, clockVars, threadVars>>

\* lock_guard<mutex> authLock(requestMutex): the caller blocks until the
\* mutex is free and takes it. What responseData holds from now on was
\* received by an earlier call.
authenticateUser_lock(t) ==
  /\ httpPc[t] = "lock"
  /\ requestMutex = 0
  /\ requestMutex' = t
  /\ httpPc' = [httpPc EXCEPT ![t] = "send"]
  /\ responseData' = Aged(responseData)
  /\ UNCHANGED <<returned, lcdVars, clockVars, threadVars>>

\* The request is built, the callbacks are registered and sendRequest returns.
authenticateUser_sendRequest(t) ==
  /\ httpPc[t] = "send"
  /\ httpPc' = [httpPc EXCEPT ![t] = "pending"]
  /\ UNCHANGED <<requestMutex, responseData, returned, lcdVars, clockVars, threadVars>>

\* processRequest reports the response headers: headersReady empties
\* responseData.
headersReady(t) ==
  /\ httpPc[t] = "pending"
  /\ responseData' = <<>>
  /\ httpPc' = [httpPc EXCEPT ![t] = "body"]
  /\ UNCHANGED <<requestMutex, returned, lcdVars, clockVars, threadVars>>

\* processRequest reports a chunk of the body: receiveData appends it.
receiveData(t) ==
  /\ httpPc[t] = "body"
  /\ Len(responseData) < MaxData
  /\ \E d \in ResponseBytes :
       responseData' = Append(responseData, [data |-> d, earlier |-> FALSE])
  /\ UNCHANGED <<requestMutex, httpPc, returned, lcdVars, clockVars, threadVars>>

\* processRequest reports the end of the response: responseComplete only
\* prints, and responsesPending() is false from now on.
responseComplete(t) ==
  /\ httpPc[t] = "body"
  /\ httpPc' = [httpPc EXCEPT ![t] = "return"]
  /\ UNCHANGED <<requestMutex, responseData, returned, lcdVars, clockVars, threadVars>>

\* The request ends before any response headers arrive and without an
\* exception: no callback is made, responsesPending() is false.
requestEndsUnanswered(t) ==
  /\ httpPc[t] = "pending"
  /\ httpPc' = [httpPc EXCEPT ![t] = "return"]
  /\ UNCHANGED <<requestMutex, responseData, returned, lcdVars, clockVars, threadVars>>

\* The mutex after authLock goes out of scope in caller t.
Unlocked(t) == IF requestMutex = t THEN 0 ELSE requestMutex

\* sendRequest or processRequest throws: the exception leaves
\* authenticateUser, and authLock's destructor releases the mutex.
authenticateUser_throw(t) ==
  /\ httpPc[t] \in {"send", "pending", "body"}
  /\ httpPc' = [httpPc EXCEPT ![t] = "idle"]
  /\ requestMutex' = Unlocked(t)
  /\ UNCHANGED <<responseData, returned, lcdVars, clockVars, threadVars>>

\* return responseData.str(): the string is copied, then authLock's destructor
\* releases the mutex.
authenticateUser_return(t) ==
  /\ httpPc[t] = "return"
  /\ returned' = [by |-> t, str |-> responseData]
  /\ httpPc' = [httpPc EXCEPT ![t] = "idle"]
  /\ requestMutex' = Unlocked(t)
  /\ UNCHANGED <<responseData, lcdVars, clockVars, threadVars>>

\* The steps of caller t between taking the lock and leaving authenticateUser
\* that end the processing of its request normally.
authenticateUser_proceed(t) ==
  \/ authenticateUser_sendRequest(t)
  \/ headersReady(t)
  \/ responseComplete(t)
  \/ requestEndsUnanswered(t)
  \/ authenticateUser_return(t)

NextHttp ==
  \E t \in Callers :
    \/ authenticateUser_call(t)
    \/ authenticateUser_lock(t)
    \/ authenticateUser_proceed(t)
    \/ receiveData(t)
    \/ authenticateUser_throw(t)

\* Each request's response processing finishes (a caller inside
\* authenticateUser keeps running, and a response does not go on for ever),
\* and a caller blocked on the mutex is not passed over for ever: std::mutex
\* promises no order among waiters, so this is an assumption on the scheduler.
SpecHttp ==
  /\ Init
  /\ [][NextHttp]_vars
  /\ \A t \in Callers :
       /\ WF_vars(authenticateUser_proceed(t))
       /\ SF_vars(authenticateUser_lock(t))

\* ------------------------------------------------------- HttpSend claims
\* The callers between sending a request and reading responseData.
InRequest == {t \in Callers : httpPc[t] \in {"send", "pending", "body", "return"}}

C19_OwnBodyOnly ==
  returned.by # 0 => \A i \in 1 .. Len(returned.str) : ~returned.str[i].earlier


\* ========================================================= shared display
\* Two threads use the driver at the same time (a clock display beside
\* user messages). Each thread runs the lines of LCD.cpp one at a time:
\* the store to regSelect at the head of writeChar, clear or home, then for
\* each nibble the composition of write's local `byte` from the globals and
\* the three calls of writeRaw. A transfer of one byte on the bus is atomic.
\* The driver takes no lock (LCD.cpp has none); whether its callers wrap
\* every public operation in one lock is useLock.

\* The public operations the threads call.
ThreadOps ==
  { [name |-> "writeMessage", message |-> <<72, 92, 0>>],
    [name |-> "clear", message |-> <<>>],
    [name |-> "home", message |-> <<>>] }

\* The bytes an operation sends, in order, each with the value it stores in
\* regSelect first: writeMessage calls writeChar for every character before
\* the terminator (regSelect = true, the code of encodeChar); clear and home
\* store false and send the nibbles 0, 1 and 0, 2.
Program(o) ==
  CASE o.name = "writeMessage" ->
         [i \in 1 .. strlen(o.message) |->
            [rs |-> TRUE,
             m1 |-> highNibble(encodeChar(o.message[i])),
             m2 |-> lowNibble(encodeChar(o.message[i]))]]
    [] o.name = "clear" -> <<[rs |-> FALSE, m1 |-> 0, m2 |-> 1]>>
    [] o.name = "home" -> <<[rs |-> FALSE, m1 |-> 0, m2 |-> 2]>>

\* Lines 150-155 of write: the local `byte` for nibble n and the globals.
frameOf(n, bl, rs) ==
  LET b1 == ShiftLeft4(n)
      b2 == IF bl THEN (b1 + BACKLIGHT_BIT) % CharMod ELSE b1
  IN IF rs THEN (b2 + REGSELECT_BIT) % CharMod ELSE b2

\* The byte of its operation thread t is sending.
Current(t) == thr[t].prog[thr[t].k]

\* The threads are started after the display has been initialised.
Threads_init ==
  /\ initState = "none"
  /\ LCD_init({TRUE}, {{}})

\* A thread calls a public operation; with the callers' lock it first waits
\* for the lock.
Thread_call(t) ==
  /\ initState = "ok"
  /\ thr[t].at = "idle"
  /\ \E o \in ThreadOps :
       thr' = [thr EXCEPT ![t] = [prog |-> Program(o), k |-> 1,
                                  at |-> IF useLock THEN "lock" ELSE "store",
                                  byte |-> 0]]
  /\ UNCHANGED <<useLock, lcdLock, bus, damage, lcdVars, clockVars, httpVars>>

\* The callers' lock is taken when it is free.
Thread_lock(t) ==
  /\ thr[t].at = "lock"
  /\ lcdLock = 0
  /\ lcdLock' = t
  /\ thr' = [thr EXCEPT ![t].at = "store"]
  /\ UNCHANGED <<useLock, bus, damage, lcdVars, clockVars, httpVars>>

\* The callers' lock is released after the operation has returned.
Thread_unlock(t) ==
  /\ thr[t].at = "unlock"
  /\ lcdLock' = 0
  /\ thr' = [thr EXCEPT ![t] = IdleThread]
  /\ UNCHANGED <<useLock, bus, damage, lcdVars, clockVars, httpVars>>

\* The head of writeChar, clear and home without the store to regSelect.
Thread_store_skipped(t) ==
  /\ thr[t].at = "store"
  /\ thr' = [thr EXCEPT ![t].at = "m1"]
  /\ UNCHANGED <<regSelect, useLock, lcdLock, bus, damage, lcdRest, clockVars,
                 httpVars>>

\* Line 185 (writeChar), 232 (clear), 244 (home): the store to regSelect.
Thread_store(t) ==
  /\ thr[t].at = "store"
  /\ regSelect' = Current(t).rs
  /\ thr' = [thr EXCEPT ![t].at = "m1"]
  /\ UNCHANGED <<useLock, lcdLock, bus, damage, lcdRest, clockVars, httpVars>>

\* Lines 150-155 of write, for the high nibble ("m1") and the low one ("m2"):
\* `byte` is composed from the globals as they are now. The nibble is
\* misframed when regSelect is not what this operation stored.
Thread_write(t) ==
  /\ thr[t].at \in {"m1", "m2"}
  /\ thr' = [thr EXCEPT
               ![t].byte = frameOf(IF thr[t].at = "m1" THEN Current(t).m1
                                   ELSE Current(t).m2, backlight, regSelect),
               ![t].at = IF thr[t].at = "m1" THEN "m1_low" ELSE "m2_low"]
  /\ damage' = IF regSelect # Current(t).rs
               THEN damage \cup {"misframed"} ELSE damage
  /\ UNCHANGED <<useLock, lcdLock, bus, lcdVars, clockVars, httpVars>>

\* The line a thread reaches after a call of writeRaw returns; after the last
\* one of a byte, the next byte of the operation or its return.
AfterRaw(t) ==
  CASE thr[t].at = "m1_low" -> "m1_high"
    [] thr[t].at = "m1_high" -> "m1_end"
    [] thr[t].at = "m1_end" -> "m2"
    [] thr[t].at = "m2_low" -> "m2_high"
    [] thr[t].at = "m2_high" -> "m2_end"
    [] thr[t].at = "m2_end" ->
         IF thr[t].k < Len(thr[t].prog) THEN "store"
         ELSE IF useLock THEN "unlock" ELSE "idle"

\* What a transfer by thread t adds to the damage when the byte before it on
\* the bus came from another thread: between the two nibbles of a byte the
\* byte is split (by a whole foreign nibble when the last three frames were
\* one), inside an enable pulse the pulse is torn; the first frame of a byte
\* may follow anything.
Interrupted(t) ==
  IF bus.by \in {0, t} \/ thr[t].at = "m1_low" THEN {}
  ELSE IF thr[t].at = "m2_low"
       THEN IF bus.n = 3 THEN {"split", "nibble_between"} ELSE {"split"}
       ELSE {"torn"}

\* The frames of the nibble in progress that are on the bus, one after the
\* other, once thread t has made its transfer.
NibbleFrames(t) ==
  IF thr[t].at \in {"m1_low", "m2_low"} THEN 1
  ELSE IF bus.by = t /\ bus.n > 0 THEN bus.n + 1
  ELSE 0

\* Lines 158, 162, 166 of write: writeRaw(byte), writeRaw(byte | ENABLE_BIT),
\* writeRaw(byte), one transfer each.
Thread_writeRaw(t) ==
  /\ thr[t].at \in {"m1_low", "m1_high", "m1_end", "m2_low", "m2_high", "m2_end"}
  /\ bus' = [by |-> t,
             frame |-> IF thr[t].at \in {"m1_high", "m2_high"}
                       THEN BitOr(thr[t].byte, ENABLE_BIT) ELSE thr[t].byte,
             n |-> NibbleFrames(t)]
  /\ damage' = damage \cup Interrupted(t)
  /\ thr' = IF AfterRaw(t) = "idle" THEN [thr EXCEPT ![t] = IdleThread]
            ELSE IF AfterRaw(t) = "store"
                 THEN [thr EXCEPT ![t].at = "store", ![t].k = @ + 1]
                 ELSE [thr EXCEPT ![t].at = AfterRaw(t)]
  /\ UNCHANGED <<useLock, lcdLock, lcdVars, clockVars, httpVars>>

NextThreads ==
  \/ Threads_init
  \/ \E t \in Threads :
       \/ Thread_call(t)
       \/ Thread_lock(t)
       \/ Thread_store(t)
       \/ Thread_write(t)
       \/ Thread_writeRaw(t)
       \/ Thread_unlock(t)

\* The callers either wrap every operation in the lock or none.
InitThreads ==
  /\ LCDInit
  /\ ClockInit
  /\ HttpInit
  /\ ThreadsInit
  /\ useLock \in BOOLEAN

SpecThreads == InitThreads /\ [][NextThreads]_vars

\* -------------------------------------------------- shared display claims
\* C13: when every public operation is wrapped in one mutual-exclusion lock,
\* no nibble is framed with another operation's register-select value, the
\* two nibbles of a byte are never separated by a foreign frame, and no
\* enable pulse is interrupted.
C13_LockedNoCorruption == useLock => damage = {}

\* C13 witness: without the lock, a nibble has been framed with the other
\* operation's register-select value and the two nibbles of a byte have been
\* separated by a whole nibble of the other thread.
C13_Witness ==
  /\ ~useLock
  /\ {"misframed", "nibble_between"} \subseteq damage

====
